---------------------------- MODULE Spec2Model ----------------------------
(***************************************************************************)
(* Transport detection of install-mcp: detectMcpTransport and its helpers  *)
(* legacyProbe, contentType, safeFetch and readFirstSseEvent.              *)
(*                                                                         *)
(* Strings of the program are sequences of one-character strings, so that  *)
(* split, trim, toLowerCase, indexOf and slice are computed character by   *)
(* character as the code computes them.  A value that may be null or       *)
(* undefined is a sequence of length at most one: Null is <<>> and         *)
(* Some(x) is <<x>>.                                                       *)
(***************************************************************************)
EXTENDS Naturals, Integers, Sequences, FiniteSets, TLC

VARIABLES
    pc,          \* where the call is suspended: "start", "POST", "GET", "READ", "done"
    timeoutMs,   \* const timeoutMs of detectMcpTransport
    optsTimeout, \* opts?.timeoutMs as passed by the caller (Null when absent)
    postRes,     \* const postRes of detectMcpTransport (Null: no response)
    site,        \* which legacyProbe call of detectMcpTransport is running
    getRes,      \* const getRes of the running legacyProbe
    first,       \* const first of the running legacyProbe
    text,        \* the bytes the server sends on the event stream of getRes
    rest,        \* the bytes of text the reader has not been given yet
    buf,         \* let buf of readFirstSseEvent
    timedOut,    \* let timedOut of readFirstSseEvent
    chunks,      \* number of chunks reader.read() has delivered in this read
    timers,      \* the timers that are armed (setTimeout done, neither fired nor cleared)
    result,      \* what the call settled with: "pending", a kind, or "threw"
    posts,       \* number of POST requests issued by this call
    gets,        \* number of GET requests issued by this call
    waits,       \* the timers armed by this call, in the order they were armed
    probes,      \* the legacyProbe calls that returned: their response and outcome
    streams,     \* the response bodies fetch handed to this call, and their states
    calls,       \* concurrent calls of detectMcpTransport: the variables of each
    handler,     \* the variables of the handler of the install command
    config,      \* the client's config file and the writeConfig calls on it
    now          \* Date.now(): the clock of the process, in ms since it started

\* The variables of one call of detectMcpTransport.
detectVars == <<pc, timeoutMs, optsTimeout, postRes, site, getRes, first, text, rest,
                buf, timedOut, chunks, timers, result, posts, gets, waits, probes,
                streams>>

vars == <<detectVars, calls, handler, config, now>>

-----------------------------------------------------------------------------
(* Bounds of the model *)

\* Number of calls of detectMcpTransport in progress at once.
NumCalls == 2

\* Number of writeConfig calls on one config file.
MaxWrites == 2

\* Milliseconds the clock advances while the concurrent calls are made.
MaxClock == 1

\* Largest number of chunks one reader delivers before the stream ends, fails or stalls.
MaxChunks == 2

-----------------------------------------------------------------------------
(* Optional values *)

Null == <<>>
Some(x) == <<x>>

-----------------------------------------------------------------------------
(* Characters and the string operations of the code *)

LF == "\n"
CR == "\r"
TAB == "\t"

\* The characters the regular expression class \s and String.trim remove.
WhiteSpace == {" ", TAB, CR, LF}

UpperCase == <<"A", "E", "J", "N", "O", "S", "T">>
LowerCase == <<"a", "e", "j", "n", "o", "s", "t">>

\* String.prototype.toLowerCase on one character.
ToLowerChar(c) ==
    IF \E i \in 1..Len(UpperCase) : UpperCase[i] = c
    THEN LowerCase[CHOOSE i \in 1..Len(UpperCase) : UpperCase[i] = c]
    ELSE c

ToLowerCase(s) == [i \in 1..Len(s) |-> ToLowerChar(s[i])]

\* s.slice(a, b) and s.slice(a), with the 0-based indices of the code.
Slice(s, a, b) == SubSeq(s, a + 1, b)
SliceFrom(s, a) == SubSeq(s, a + 1, Len(s))

\* s.startsWith(p)
StartsWith(s, p) == Len(s) >= Len(p) /\ SubSeq(s, 1, Len(p)) = p

\* s.indexOf(p): the 0-based index of the first occurrence of p, -1 when there is none.
IndexOf(s, p) ==
    LET hits == {i \in 0..(Len(s) - Len(p)) : Slice(s, i, i + Len(p)) = p}
    IN  IF hits = {} THEN -1 ELSE CHOOSE i \in hits : \A j \in hits : i <= j

\* s.replace(/^\s*/, '')
RECURSIVE TrimStart(_)
TrimStart(s) ==
    IF s # <<>> /\ Head(s) \in WhiteSpace THEN TrimStart(Tail(s)) ELSE s

RECURSIVE TrimEnd(_)
TrimEnd(s) ==
    IF s # <<>> /\ s[Len(s)] \in WhiteSpace
    THEN TrimEnd(SubSeq(s, 1, Len(s) - 1))
    ELSE s

\* s.trim()
Trim(s) == TrimEnd(TrimStart(s))

\* s.split(';')[0]
BeforeSemicolon(s) ==
    LET semi == IndexOf(s, <<";">>)
    IN  IF semi = -1 THEN s ELSE Slice(s, 0, semi)

\* frame.split(/\r?\n/)
RECURSIVE SplitLines(_)
SplitLines(s) ==
    LET nl == IndexOf(s, <<LF>>)
    IN  IF nl = -1 THEN <<s>>
        ELSE LET end == IF nl > 0 /\ s[nl] = CR THEN nl - 1 ELSE nl
             IN  <<Slice(s, 0, end)>> \o SplitLines(SliceFrom(s, nl + 1))

\* dataLines.join('\n')
RECURSIVE Join(_)
Join(ls) ==
    IF Len(ls) = 0 THEN <<>>
    ELSE IF Len(ls) = 1 THEN ls[1]
    ELSE ls[1] \o <<LF>> \o Join(Tail(ls))

-----------------------------------------------------------------------------
(* String literals of the code *)

ApplicationJson ==
    <<"a", "p", "p", "l", "i", "c", "a", "t", "i", "o", "n", "/", "j", "s", "o", "n">>
TextEventStream ==
    <<"t", "e", "x", "t", "/", "e", "v", "e", "n", "t", "-", "s", "t", "r", "e", "a", "m">>
EventField == <<"e", "v", "e", "n", "t">>
DataField == <<"d", "a", "t", "a">>
IdField == <<"i", "d">>
Endpoint == <<"e", "n", "d", "p", "o", "i", "n", "t">>
Boundary == <<LF, LF>>


-----------------------------------------------------------------------------
(* Values of the program *)

\* type McpTransportKind
McpTransportKind == {"http", "sse", "unknown"}

\* opts?.timeoutMs ?? 5000
DefaultTimeoutMs == 5000

\* Response.ok
Ok(res) == res.status >= 200 /\ res.status <= 299

\* contentType without toLowerCase().
contentTypeCaseSensitive(raw) ==
    IF raw = Null \/ raw[1] = <<>> THEN Null
    ELSE LET semi == Trim(BeforeSemicolon(raw[1]))
         IN  IF semi = <<>> THEN Null ELSE Some(semi)

\* function contentType(raw): the MIME type before any ';', trimmed and
\* lower-cased; undefined (Null) for a missing or empty header and for an empty
\* MIME type.
contentType(raw) ==
    IF raw = Null \/ raw[1] = <<>> THEN Null
    ELSE LET semi == ToLowerCase(Trim(BeforeSemicolon(raw[1])))
         IN  IF semi = <<>> THEN Null ELSE Some(semi)

\* const event: FirstSseEvent = {} and const dataLines: string[] = []
EmptyEvent == [event |-> Null, data |-> Null, id |-> Null]
EmptyParse == [event |-> EmptyEvent, dataLines |-> <<>>]

\* The body of the loop taking a line of any other field for a data line.
ParseLineKeepsUnknown(acc, line) ==
    IF StartsWith(line, <<":">>) THEN acc
    ELSE LET colon == IndexOf(line, <<":">>)
             field == Trim(IF colon = -1 THEN line ELSE Slice(line, 0, colon))
             valueStr == IF colon = -1 THEN <<>>
                         ELSE TrimStart(SliceFrom(line, colon + 1))
         IN  IF field = EventField
               THEN [acc EXCEPT !.event.event = Some(valueStr)]
             ELSE IF field = IdField
               THEN [acc EXCEPT !.event.id = Some(valueStr)]
             ELSE [acc EXCEPT !.dataLines = Append(@, valueStr)]

\* The body of the loop "for (const line of lines)" of readFirstSseEvent.
ParseLine(acc, line) ==
    IF StartsWith(line, <<":">>) THEN acc
    ELSE LET colon == IndexOf(line, <<":">>)
             field == Trim(IF colon = -1 THEN line ELSE Slice(line, 0, colon))
             valueStr == IF colon = -1 THEN <<>>
                         ELSE TrimStart(SliceFrom(line, colon + 1))
         IN  IF field = EventField
               THEN [acc EXCEPT !.event.event = Some(valueStr)]
             ELSE IF field = DataField
               THEN [acc EXCEPT !.dataLines = Append(@, valueStr)]
             ELSE IF field = IdField
               THEN [acc EXCEPT !.event.id = Some(valueStr)]
             ELSE acc

RECURSIVE ParseLines(_, _)
ParseLines(acc, lines) ==
    IF lines = <<>> THEN acc
    ELSE ParseLines(ParseLine(acc, Head(lines)), Tail(lines))

\* Parsing a frame with only the last data line kept.
ParseFrameLastData(frame) ==
    LET acc == ParseLines(EmptyParse, SplitLines(frame))
    IN  IF Len(acc.dataLines) # 0
        THEN [acc.event EXCEPT !.data = Some(acc.dataLines[Len(acc.dataLines)])]
        ELSE acc.event

\* "Parse single SSE frame" of readFirstSseEvent: the event object returned
\* for the text of one frame.
ParseFrame(frame) ==
    LET acc == ParseLines(EmptyParse, SplitLines(frame))
    IN  IF Len(acc.dataLines) # 0
        THEN [acc.event EXCEPT !.data = Some(Join(acc.dataLines))]
        ELSE acc.event

\* The decision of legacyProbe without .trim() on the event name.
ClassifyFirstNoTrim(f) ==
    IF f = Null THEN "unknown"
    ELSE IF (IF f[1].event = Null THEN <<>> ELSE f[1].event[1]) = Endpoint
         THEN "sse"
         ELSE "http"

\* The decision of legacyProbe taking a frame without event for no frame.
ClassifyFirstNeedsEvent(f) ==
    IF f = Null \/ f[1].event = Null THEN "unknown"
    ELSE IF Trim(f[1].event[1]) = Endpoint THEN "sse"
    ELSE "http"

\* The decision of legacyProbe on the value readFirstSseEvent returned.
ClassifyFirst(f) ==
    IF f = Null THEN "unknown"
    ELSE IF Trim(IF f[1].event = Null THEN <<>> ELSE f[1].event[1]) = Endpoint
         THEN "sse"
         ELSE "http"

-----------------------------------------------------------------------------
(* What the server and the network may do *)

TextHtml ==
    <<"t", "e", "x", "t", "/", "h", "t", "m", "l">>
SseWithCharset ==
    <<" ", "T", "e", "x", "t", "/", "E", "v", "e", "n", "t", "-", "S", "t", "r", "e",
      "a", "m", " ", ";", " ", "c", "h", "a", "r", "s", "e", "t", "=", "u", "t", "f",
      "-", "8">>
JsonWithCharset ==
    <<"A", "p", "p", "l", "i", "c", "a", "t", "i", "o", "n", "/", "J", "S", "O", "N",
      ";", "c", "h", "a", "r", "s", "e", "t", "=", "u", "t", "f", "-", "8">>

\* A response fetch resolves with: its status, the value of its content-type
\* header (Null: no such header) and whether Response.body is a stream (FALSE:
\* it is null).
Response(st, ct, b) == [status |-> st, contentType |-> ct, body |-> b]

\* The answers of a server to the POST.
PostResponses ==
    {Response(200, Some(JsonWithCharset), TRUE),
     Response(200, Some(TextEventStream), TRUE),
     Response(200, Some(TextHtml), TRUE),
     Response(204, Null, FALSE),
     Response(401, Some(ApplicationJson), TRUE),
     Response(403, Some(TextHtml), TRUE),
     Response(404, Some(TextHtml), TRUE),
     Response(405, Some(<<>>), TRUE),
     Response(500, Some(TextHtml), TRUE)}

\* The answers of a server to the GET.
GetResponses ==
    {Response(200, Some(SseWithCharset), TRUE),
     Response(200, Some(TextEventStream), FALSE),
     Response(200, Some(ApplicationJson), TRUE),
     Response(401, Null, TRUE),
     Response(404, Some(TextHtml), TRUE),
     Response(404, Some(TextEventStream), TRUE),
     Response(405, Null, FALSE),
     Response(405, Some(TextEventStream), TRUE)}

TxtEndpoint ==
    <<"e", "v", "e", "n", "t", ":", " ", "e", "n", "d", "p", "o", "i", "n", "t", LF, LF>>
TxtMessage ==
    <<"e", "v", "e", "n", "t", ":", " ", "m", "e", "s", "s", "a", "g", "e", LF, LF>>
TxtDataOnly ==
    <<"d", "a", "t", "a", ":", " ", "x", LF, LF>>
TxtNoBoundary ==
    <<"e", "v", "e", "n", "t", ":", " ", "e", "n", "d", "p", "o", "i", "n", "t", LF>>
TxtKeepAlive ==
    <<":", " ", "k", LF, LF, "e", "v", "e", "n", "t", ":", " ", "e", "n", "d", "p", "o",
      "i", "n", "t", LF, LF>>
TxtTwoFrames ==
    <<"i", "d", ":", " ", "1", LF, LF, "e", "v", "e", "n", "t", ":", " ", "e", "n", "d",
      "p", "o", "i", "n", "t", LF, LF>>
TxtCrLf ==
    <<"e", "v", "e", "n", "t", ":", " ", "e", "n", "d", "p", "o", "i", "n", "t", CR, LF, CR, LF>>
TxtPadded ==
    <<"e", "v", "e", "n", "t", ":", " ", " ", "e", "n", "d", "p", "o", "i", "n", "t", " ", LF, LF>>

\* The texts a server may send on the GET event stream.
StreamTexts ==
    {TxtEndpoint, TxtMessage, TxtDataOnly, TxtNoBoundary, TxtKeepAlive,
     TxtTwoFrames, TxtCrLf, TxtPadded}

\* The values of opts?.timeoutMs a caller passes.
TimeoutOptions == {Null, Some(100)}

-----------------------------------------------------------------------------
(* The call as a record of its variables, and the steps of the code on it *)

Cur ==
    [pc |-> pc, timeoutMs |-> timeoutMs, optsTimeout |-> optsTimeout,
     postRes |-> postRes, site |-> site, getRes |-> getRes, first |-> first,
     text |-> text, rest |-> rest, buf |-> buf, timedOut |-> timedOut, chunks |-> chunks,
     timers |-> timers, result |-> result, posts |-> posts, gets |-> gets,
     waits |-> waits, probes |-> probes, streams |-> streams]

Apply(n) ==
    /\ pc' = n.pc
    /\ timeoutMs' = n.timeoutMs
    /\ optsTimeout' = n.optsTimeout
    /\ postRes' = n.postRes
    /\ site' = n.site
    /\ getRes' = n.getRes
    /\ first' = n.first
    /\ text' = n.text
    /\ rest' = n.rest
    /\ buf' = n.buf
    /\ timedOut' = n.timedOut
    /\ chunks' = n.chunks
    /\ timers' = n.timers
    /\ result' = n.result
    /\ posts' = n.posts
    /\ gets' = n.gets
    /\ waits' = n.waits
    /\ probes' = n.probes
    /\ streams' = n.streams
    /\ UNCHANGED <<calls, handler, config, now>>

\* setTimeout(..., timeoutMs) of safeFetch and of readFirstSseEvent.
setTimeout(s, t) ==
    [s EXCEPT !.timers = @ \cup {t},
              !.waits = Append(@, [timer |-> t, ms |-> s.timeoutMs])]

\* clearTimeout(t) in the finally blocks; a timer that fired is no longer armed.
clearTimeout(s, t) == [s EXCEPT !.timers = @ \ {t}]

\* The callback of a timer runs: the timer is no longer armed.
TimerFired(s, t) == [s EXCEPT !.timers = @ \ {t}]

\* detectMcpTransport settles: return kind, or an exception leaves the function.
Return(s, kind) == [s EXCEPT !.pc = "done", !.result = kind]
Throw(s) == [s EXCEPT !.pc = "done", !.result = "threw"]

\* The result of an awaited helper: a value, or an exception it let escape.
Value(v) == [threw |-> FALSE, value |-> v]
Thrown == [threw |-> TRUE, value |-> Null]

\* How fetch settles: fulfilled with a response, or rejected (network error,
\* malformed URL, invalid header, abort by the timer).
Fulfilled(res) == [state |-> "fulfilled", res |-> res]
Rejected == [state |-> "rejected"]

\* fetch resolves with res: when res.body is a stream, that stream is open
\* and nobody reads it yet.
openStream(s, method, res) ==
    IF res.body
    THEN [s EXCEPT !.streams = Append(@, [req |-> method, state |-> "open"])]
    ELSE s

\* The state of the body of the last response: "open", "locked" (a reader
\* was acquired with getReader()), "closed" (the server ended it), "errored",
\* "cancelled" or "cancelFailed" (reader.cancel() was called, and its promise
\* fulfilled or rejected).
StreamState(s) ==
    IF s.streams = <<>> THEN "none" ELSE s.streams[Len(s.streams)].state

SetStream(s, st) == [s EXCEPT !.streams[Len(s.streams)].state = st]

\* The POST and the GET issued together, each with its abort timer.
safeFetchStartBoth(s, method) ==
    [setTimeout(setTimeout(s, "POST"), "GET") EXCEPT
         !.pc = method, !.posts = @ + 1, !.gets = @ + 1]

\* safeFetch up to its await: arm the abort timer and issue the request.
safeFetchStart(s, method) ==
    LET s1 == setTimeout(s, method)
    IN  IF method = "POST"
        THEN [s1 EXCEPT !.pc = "POST", !.posts = @ + 1]
        ELSE [s1 EXCEPT !.pc = "GET", !.gets = @ + 1]

\* safeFetch without its catch block: a rejection of fetch escapes.
safeFetchNoCatch(outcome) ==
    IF outcome.state = "fulfilled" THEN Value(Some(outcome.res)) ELSE Thrown

\* try { return await fetch(...) } catch { return null } of safeFetch.
safeFetch(outcome) ==
    IF outcome.state = "fulfilled" THEN Value(Some(outcome.res)) ELSE Value(Null)

\* legacyProbe up to its await, called from detectMcpTransport at site.
legacyProbeStart(s, where) ==
    safeFetchStart([s EXCEPT !.site = where, !.getRes = Null, !.first = Null,
                             !.text = <<>>], "GET")

\* detectMcpTransport returning only an sse verdict of the probe.
detectAfterProbeSseOnly(s, legacy) ==
    IF legacy = "sse" THEN Return(s, legacy)
    ELSE IF s.site = "definite" THEN legacyProbeStart(s, "fallback")
    ELSE Return(s, "unknown")

\* detectMcpTransport after a legacyProbe call returned legacy.
detectAfterProbe(s, legacy) ==
    IF legacy # "unknown" THEN Return(s, legacy)
    ELSE IF s.site = "definite" THEN legacyProbeStart(s, "fallback")
    ELSE Return(s, "unknown")

\* legacyProbe returns kind to detectMcpTransport.
legacyProbeReturn(s, kind) ==
    detectAfterProbe(
        [s EXCEPT !.probes = Append(@, [res |-> s.getRes, kind |-> kind])],
        kind)

\* legacyProbe after readFirstSseEvent settled with r.
legacyProbeAfterRead(s, r) ==
    IF r.threw THEN Throw(s)
    ELSE legacyProbeReturn([s EXCEPT !.first = r.value], ClassifyFirst(r.value))

\* readFirstSseEvent up to its first await reader.read().
readFirstSseEventStart(s, res, txt) ==
    IF ~res.body THEN legacyProbeAfterRead(s, Value(Null))
    ELSE [setTimeout(SetStream(s, "locked"), "READ") EXCEPT
              !.pc = "READ", !.text = txt, !.rest = txt, !.buf = <<>>,
              !.timedOut = FALSE, !.chunks = 0]

\* legacyProbe testing the content-type before the 405 status.
legacyProbeAfterGetContentTypeFirst(s, r, txt) ==
    IF r.threw THEN Throw(s)
    ELSE LET s1 == [s EXCEPT !.getRes = r.value]
         IN  IF r.value = Null THEN legacyProbeReturn(s1, "unknown")
             ELSE IF contentType(r.value[1].contentType) # Some(TextEventStream)
                  THEN legacyProbeReturn(s1, "unknown")
             ELSE IF r.value[1].status = 405 THEN legacyProbeReturn(s1, "http")
             ELSE readFirstSseEventStart(s1, r.value[1], txt)

\* legacyProbe after safeFetch settled with r; txt is what the server will
\* send on the stream of the response.
legacyProbeAfterGet(s, r, txt) ==
    IF r.threw THEN Throw(s)
    ELSE LET s1 == [s EXCEPT !.getRes = r.value]
         IN  IF r.value = Null THEN legacyProbeReturn(s1, "unknown")
             ELSE IF r.value[1].status = 405 THEN legacyProbeReturn(s1, "http")
             ELSE IF contentType(r.value[1].contentType) # Some(TextEventStream)
                  THEN legacyProbeReturn(s1, "unknown")
             ELSE readFirstSseEventStart(s1, r.value[1], txt)

\* Whether legacyProbe goes on to read the body of the response res.
ReadsBody(res) ==
    /\ res.status # 405
    /\ contentType(res.contentType) = Some(TextEventStream)
    /\ res.body

\* detectMcpTransport returning unknown at once on a 401 or 403.
detectAfterPostAuthReturns(s, r) ==
    IF r.threw THEN Throw(s)
    ELSE LET s1 == [s EXCEPT !.postRes = r.value]
         IN  IF r.value # Null
             THEN LET res == r.value[1]
                      ct == contentType(res.contentType)
                  IN  IF Ok(res) /\ (ct = Some(ApplicationJson)
                                     \/ ct = Some(TextEventStream))
                        THEN Return(s1, "http")
                      ELSE IF res.status = 401 \/ res.status = 403
                        THEN Return(s1, "unknown")
                      ELSE IF res.status >= 400 /\ res.status < 500
                        THEN legacyProbeStart(s1, "definite")
                      ELSE legacyProbeStart(s1, "fallback")
             ELSE legacyProbeStart(s1, "noResponse")

\* detectMcpTransport taking every 4xx, 401 and 403 included, as a definite
\* rejection.
detectAfterPostAuthDefinite(s, r) ==
    IF r.threw THEN Throw(s)
    ELSE LET s1 == [s EXCEPT !.postRes = r.value]
         IN  IF r.value # Null
             THEN LET res == r.value[1]
                      ct == contentType(res.contentType)
                  IN  IF Ok(res) /\ (ct = Some(ApplicationJson)
                                     \/ ct = Some(TextEventStream))
                        THEN Return(s1, "http")
                      ELSE IF res.status >= 400 /\ res.status < 500
                        THEN legacyProbeStart(s1, "definite")
                      ELSE legacyProbeStart(s1, "fallback")
             ELSE legacyProbeStart(s1, "noResponse")

\* detectMcpTransport after the POST settled with r.
detectAfterPost(s, r) ==
    IF r.threw THEN Throw(s)
    ELSE LET s1 == [s EXCEPT !.postRes = r.value]
         IN  IF r.value # Null
             THEN LET res == r.value[1]
                      ct == contentType(res.contentType)
                  IN  IF Ok(res) /\ (ct = Some(ApplicationJson)
                                     \/ ct = Some(TextEventStream))
                        THEN Return(s1, "http")
                      ELSE IF /\ res.status >= 400 /\ res.status < 500
                              /\ res.status # 401 /\ res.status # 403
                        THEN legacyProbeStart(s1, "definite")
                      ELSE legacyProbeStart(s1, "fallback")
             ELSE legacyProbeStart(s1, "noResponse")

\* The try block of readFirstSseEvent settles: value v, or the catch block.
readFirstSseEvent(outcome) ==
    IF outcome.state = "fulfilled" THEN Value(outcome.res) ELSE Value(Null)

\* The finally block of readFirstSseEvent without clearTimeout(timer).
readFirstSseEventEndNoClear(s) ==
    [s EXCEPT !.rest = <<>>, !.buf = <<>>, !.timedOut = FALSE, !.chunks = 0]

\* readFirstSseEvent returns: the finally block disarms the timer, and the
\* locals of the function (reader, buf, timedOut) are gone.
readFirstSseEventEnd(s) ==
    [clearTimeout(s, "READ") EXCEPT
         !.rest = <<>>, !.buf = <<>>, !.timedOut = FALSE, !.chunks = 0]

\* readFirstSseEvent parsing what the buffer holds when the stream ends.
readDoneFlushesBuffer(s) ==
    legacyProbeAfterRead(
        readFirstSseEventEnd(s),
        readFirstSseEvent(Fulfilled(IF s.buf = <<>> THEN Null
                                    ELSE Some(ParseFrame(s.buf)))))

\* readFirstSseEvent after reader.read() reported done, or the loop ended.
readDone(s) ==
    legacyProbeAfterRead(readFirstSseEventEnd(s),
                         readFirstSseEvent(Fulfilled(Null)))

\* readFirstSseEvent reading on after a chunk, whatever the buffer holds.
readChunkUntilEnd(s, chunk) ==
    [s EXCEPT !.rest = SliceFrom(@, Len(chunk)), !.chunks = @ + 1,
              !.buf = @ \o chunk]

\* readFirstSseEvent looking for the boundary in the chunk alone.
readChunkSearchesChunk(s, chunk) ==
    LET idx == IndexOf(chunk, Boundary)
        s1 == [s EXCEPT !.rest = SliceFrom(@, Len(chunk)), !.chunks = @ + 1]
    IN  IF idx # -1
        THEN legacyProbeAfterRead(
                 readFirstSseEventEnd(s1),
                 readFirstSseEvent(
                     Fulfilled(Some(ParseFrame(s.buf \o Slice(chunk, 0, idx))))))
        ELSE [s1 EXCEPT !.buf = s.buf \o chunk]

\* readFirstSseEvent after reader.read() delivered chunk.
readChunk(s, chunk) ==
    LET buf1 == s.buf \o chunk
        idx == IndexOf(buf1, Boundary)
        s1 == [s EXCEPT !.rest = SliceFrom(@, Len(chunk)), !.chunks = @ + 1]
    IN  IF idx # -1
        THEN LET frame == Slice(buf1, 0, idx)
                 s2 == [s1 EXCEPT !.buf = SliceFrom(buf1, idx + 2)]
             IN  legacyProbeAfterRead(
                     readFirstSseEventEnd(s2),
                     readFirstSseEvent(Fulfilled(Some(ParseFrame(frame)))))
        ELSE IF s.timedOut THEN readDone(s1)
        ELSE [s1 EXCEPT !.buf = buf1]

\* readFirstSseEvent after reader.read() rejected.
readFailed(s) ==
    legacyProbeAfterRead(readFirstSseEventEnd(s), readFirstSseEvent(Rejected))

\* The timer callback of readFirstSseEvent without reader.cancel().
readTimerNoCancel(s, ok) ==
    [TimerFired(s, "READ") EXCEPT !.timedOut = TRUE]

\* The timer callback of readFirstSseEvent: timedOut = true and
\* reader.cancel(), whose promise fulfils (ok) or rejects and is swallowed.
\* Either way the stream is closed for the reader.
readTimer(s, ok) ==
    [SetStream(TimerFired(s, "READ"), IF ok THEN "cancelled" ELSE "cancelFailed")
     EXCEPT !.timedOut = TRUE]

-----------------------------------------------------------------------------
(* Actions *)

\* The variables of a call of detectMcpTransport(url, opts) before it runs.
NewCall(opt) ==
    [pc |-> "start", timeoutMs |-> 0, optsTimeout |-> opt, postRes |-> Null,
     site |-> "none", getRes |-> Null, first |-> Null, text |-> <<>>,
     rest |-> <<>>, buf |-> <<>>, timedOut |-> FALSE, chunks |-> 0,
     timers |-> {}, result |-> "pending", posts |-> 0, gets |-> 0,
     waits |-> <<>>, probes |-> <<>>, streams |-> <<>>]

\* No call of detectMcpTransport is in progress in this process.
NoCall ==
    /\ pc = "none"
    /\ optsTimeout = Null
    /\ timeoutMs = 0
    /\ postRes = Null
    /\ site = "none"
    /\ getRes = Null
    /\ first = Null
    /\ text = <<>>
    /\ rest = <<>>
    /\ buf = <<>>
    /\ timedOut = FALSE
    /\ chunks = 0
    /\ timers = {}
    /\ result = "pending"
    /\ posts = 0
    /\ gets = 0
    /\ waits = <<>>
    /\ probes = <<>>
    /\ streams = <<>>

Init ==
    /\ pc = "start"
    /\ optsTimeout \in TimeoutOptions
    /\ timeoutMs = 0
    /\ postRes = Null
    /\ site = "none"
    /\ getRes = Null
    /\ first = Null
    /\ text = <<>>
    /\ rest = <<>>
    /\ buf = <<>>
    /\ timedOut = FALSE
    /\ chunks = 0
    /\ timers = {}
    /\ result = "pending"
    /\ posts = 0
    /\ gets = 0
    /\ waits = <<>>
    /\ probes = <<>>
    /\ streams = <<>>
    /\ calls = <<>>
    /\ handler = Null
    /\ config = Null
    /\ now = 0

\* detectMcpTransport is called: it runs up to the await of the POST.
Call ==
    /\ pc = "start"
    /\ Apply(safeFetchStart(
           [Cur EXCEPT !.timeoutMs = IF optsTimeout = Null THEN DefaultTimeoutMs
                                     ELSE optsTimeout[1]],
           "POST"))

\* The POST is answered.
PostResponds ==
    /\ pc = "POST"
    /\ \E res \in PostResponses :
           Apply(detectAfterPost(clearTimeout(openStream(Cur, "POST", res), "POST"),
                                 safeFetch(Fulfilled(res))))

\* The POST fails: network error, malformed URL, invalid header.
PostFails ==
    /\ pc = "POST"
    /\ Apply(detectAfterPost(clearTimeout(Cur, "POST"), safeFetch(Rejected)))

\* The timer of the POST fires: ac.abort() makes fetch reject.
PostTimesOut ==
    /\ pc = "POST"
    /\ "POST" \in timers
    /\ Apply(detectAfterPost(clearTimeout(TimerFired(Cur, "POST"), "POST"),
                             safeFetch(Rejected)))

\* The GET is answered.
GetResponds ==
    /\ pc = "GET"
    /\ \E res \in GetResponses :
       \E txt \in IF ReadsBody(res) THEN StreamTexts ELSE {<<>>} :
           Apply(legacyProbeAfterGet(clearTimeout(openStream(Cur, "GET", res), "GET"),
                                     safeFetch(Fulfilled(res)), txt))

\* The GET fails.
GetFails ==
    /\ pc = "GET"
    /\ Apply(legacyProbeAfterGet(clearTimeout(Cur, "GET"), safeFetch(Rejected),
                                 <<>>))

\* The timer of the GET fires.
GetTimesOut ==
    /\ pc = "GET"
    /\ "GET" \in timers
    /\ Apply(legacyProbeAfterGet(clearTimeout(TimerFired(Cur, "GET"), "GET"),
                                 safeFetch(Rejected), <<>>))

\* reader.read() delivers the next n bytes of the stream.
ReadChunk ==
    /\ pc = "READ"
    /\ StreamState(Cur) = "locked"
    /\ chunks < MaxChunks
    /\ \E n \in 1..Len(rest) : Apply(readChunk(Cur, Slice(rest, 0, n)))

\* The server ends the stream: reader.read() reports done.
ReadEnds ==
    /\ pc = "READ"
    /\ StreamState(Cur) = "locked"
    /\ Apply(readDone(SetStream(Cur, "closed")))

\* reader.read() rejects (the connection breaks).
ReadFails ==
    /\ pc = "READ"
    /\ StreamState(Cur) = "locked"
    /\ Apply(readFailed(SetStream(Cur, "errored")))

\* The timer of readFirstSseEvent fires.
ReadTimesOut ==
    /\ pc = "READ"
    /\ "READ" \in timers
    /\ \E ok \in BOOLEAN : Apply(readTimer(Cur, ok))

\* reader.cancel() closed the stream: the pending reader.read() reports done.
ReadCancelled ==
    /\ pc = "READ"
    /\ StreamState(Cur) \in {"cancelled", "cancelFailed"}
    /\ Apply(readDone(Cur))

Next ==
    \/ Call
    \/ PostResponds
    \/ PostFails
    \/ PostTimesOut
    \/ GetResponds
    \/ GetFails
    \/ GetTimesOut
    \/ ReadChunk
    \/ ReadEnds
    \/ ReadFails
    \/ ReadTimesOut
    \/ ReadCancelled

Spec == Init /\ [][Next]_vars

\* reader.cancel() closes the stream before the underlying source is asked to
\* cancel, and closing resolves the pending reader.read() with done: the
\* continuation of that read is a job the event loop runs.
FairSpec == Spec /\ WF_vars(ReadCancelled)

-----------------------------------------------------------------------------
(* readFirstSseEvent on its own: the texts of a stream, cut into chunks *)

\* The stream 'event: endpoint', 'data: line1', 'data: line2', blank line.
TxtDataLines ==
    <<"e", "v", "e", "n", "t", ":", " ", "e", "n", "d", "p", "o", "i", "n", "t", LF,
      "d", "a", "t", "a", ":", " ", "l", "i", "n", "e", "1", LF, "d", "a", "t", "a",
      ":", " ", "l", "i", "n", "e", "2", LF, LF>>

\* The texts a server may send on the stream given to readFirstSseEvent.
FrameTexts ==
    StreamTexts \cup
    { TxtDataLines,
      \* two event lines
      <<"e", "v", "e", "n", "t", ":", " ", "a", LF, "e", "v", "e", "n", "t", ":", " ",
        "b", LF, LF>>,
      \* a comment, a retry line and an unknown field
      <<":", " ", "c", LF, "e", "v", "e", "n", "t", ":", " ", "e", "n", "d", "p", "o",
        "i", "n", "t", LF, "r", "e", "t", "r", "y", ":", " ", "5", LF, "f", "o", "o",
        LF, LF>>,
      \* a data line without a colon
      <<"d", "a", "t", "a", LF, "i", "d", ":", "1", LF, LF>>,
      \* a value after a space and a tab
      <<"d", "a", "t", "a", ":", " ", TAB, "x", LF, LF>>,
      \* an empty first frame
      <<LF, LF, "e", "v", "e", "n", "t", ":", " ", "e", "n", "d", "p", "o", "i", "n",
        "t", LF, LF>>,
      \* a first frame ended by \r\n\r\n, then a frame ended by \n\n
      <<"i", "d", ":", " ", "1", CR, LF, CR, LF, "e", "v", "e", "n", "t", ":", " ", "e",
        "n", "d", "p", "o", "i", "n", "t", LF, LF>> }

\* readFirstSseEvent(getRes, timeoutMs) awaits its first reader.read(): the
\* POST of the call got no response and the GET was answered 200 with an
\* event stream that will carry one of FrameTexts.
ReaderInit ==
    \E txt \in FrameTexts :
        LET res == Response(200, Some(TextEventStream), TRUE)
            posted == safeFetchStart(
                          [NewCall(Null) EXCEPT !.timeoutMs = DefaultTimeoutMs], "POST")
            probing == detectAfterPost(clearTimeout(posted, "POST"), safeFetch(Rejected))
            s == legacyProbeAfterGet(clearTimeout(openStream(probing, "GET", res), "GET"),
                                     safeFetch(Fulfilled(res)), txt)
        IN  /\ pc = s.pc
            /\ optsTimeout = s.optsTimeout
            /\ timeoutMs = s.timeoutMs
            /\ postRes = s.postRes
            /\ site = s.site
            /\ getRes = s.getRes
            /\ first = s.first
            /\ text = s.text
            /\ rest = s.rest
            /\ buf = s.buf
            /\ timedOut = s.timedOut
            /\ chunks = s.chunks
            /\ timers = s.timers
            /\ result = s.result
            /\ posts = s.posts
            /\ gets = s.gets
            /\ waits = s.waits
            /\ probes = s.probes
            /\ streams = s.streams
            /\ calls = <<>>
            /\ handler = Null
            /\ config = Null
            /\ now = 0

ReaderSpec ==
    /\ ReaderInit
    /\ [][\/ ReadChunk
          \/ ReadEnds
          \/ ReadFails
          \/ ReadTimesOut
          \/ ReadCancelled]_vars

-----------------------------------------------------------------------------
(* Concurrent calls: each call runs the steps above on its own variables,
   against what its server does *)

\* What a server and the network do to one call, one event at a time.
Event(type, res, txt, n) == [type |-> type, res |-> res, txt |-> txt, n |-> n]

\* Behaviours of a server towards one call.
Behaviours ==
    LET Post(st, ct) == Event("PostResponds", Some(Response(st, Some(ct), TRUE)), <<>>, 0)
        Stream(txt) ==
            Event("GetResponds", Some(Response(200, Some(TextEventStream), TRUE)), txt, 0)
        Chunk(n) == Event("ReadChunk", Null, <<>>, n)
        Happens(type) == Event(type, Null, <<>>, 0)
    IN  { <<Post(200, JsonWithCharset)>>,
          <<Post(404, TextHtml), Stream(TxtEndpoint), Chunk(7), Chunk(10)>>,
          <<Happens("PostFails"), Stream(TxtMessage), Chunk(16)>>,
          <<Post(401, ApplicationJson), Stream(TxtKeepAlive), Chunk(2), Chunk(3)>>,
          <<Post(404, TextHtml), Stream(TxtNoBoundary), Chunk(5),
            Happens("ReadTimesOut"), Happens("ReadCancelled"),
            Event("GetResponds", Some(Response(405, Null, FALSE)), <<>>, 0)>>,
          <<Post(500, TextHtml), Stream(TxtDataOnly), Chunk(4), Happens("ReadEnds")>>,
          <<Happens("PostTimesOut"), Happens("GetFails")>> }

\* The event can happen to a call whose variables are s.
Awaits(s, ev) ==
    CASE ev.type \in {"PostResponds", "PostFails"} -> s.pc = "POST"
      [] ev.type = "PostTimesOut" -> s.pc = "POST" /\ "POST" \in s.timers
      [] ev.type \in {"GetResponds", "GetFails"} -> s.pc = "GET"
      [] ev.type = "ReadChunk" ->
            s.pc = "READ" /\ StreamState(s) = "locked" /\ ev.n \in 1..Len(s.rest)
      [] ev.type = "ReadEnds" -> s.pc = "READ" /\ StreamState(s) = "locked"
      [] ev.type = "ReadTimesOut" -> s.pc = "READ" /\ "READ" \in s.timers
      [] ev.type = "ReadCancelled" ->
            s.pc = "READ" /\ StreamState(s) \in {"cancelled", "cancelFailed"}
      [] OTHER -> FALSE

\* The code a call runs when the event happens to it.
Step(s, ev) ==
    CASE ev.type = "PostResponds" ->
            detectAfterPost(clearTimeout(openStream(s, "POST", ev.res[1]), "POST"),
                            safeFetch(Fulfilled(ev.res[1])))
      [] ev.type = "PostFails" ->
            detectAfterPost(clearTimeout(s, "POST"), safeFetch(Rejected))
      [] ev.type = "PostTimesOut" ->
            detectAfterPost(clearTimeout(TimerFired(s, "POST"), "POST"),
                            safeFetch(Rejected))
      [] ev.type = "GetResponds" ->
            legacyProbeAfterGet(clearTimeout(openStream(s, "GET", ev.res[1]), "GET"),
                                safeFetch(Fulfilled(ev.res[1])), ev.txt)
      [] ev.type = "GetFails" ->
            legacyProbeAfterGet(clearTimeout(s, "GET"), safeFetch(Rejected), <<>>)
      [] ev.type = "ReadChunk" -> readChunk(s, Slice(s.rest, 0, ev.n))
      [] ev.type = "ReadEnds" -> readDone(SetStream(s, "closed"))
      [] ev.type = "ReadTimesOut" -> readTimer(s, TRUE)
      [] ev.type = "ReadCancelled" -> readDone(s)

\* detectMcpTransport(url) up to the await of the POST.
Invoked(s) ==
    safeFetchStart([s EXCEPT !.timeoutMs = IF s.optsTimeout = Null
                                           THEN DefaultTimeoutMs
                                           ELSE s.optsTimeout[1]],
                   "POST")

\* The variables of call i as if buf were one variable of the module.
LocalsSharedBuf(cs, i) == [cs[i].locals EXCEPT !.buf = cs[1].locals.buf]

\* The variables call i reads and writes: the locals of its own activation
\* of detectMcpTransport, legacyProbe, safeFetch and readFirstSseEvent.
Locals(cs, i) == cs[i].locals


\* The calls were made (none has run yet), each to a server of its own.
ParInit ==
    /\ NoCall
    /\ calls \in [1..NumCalls -> {[locals |-> NewCall(Null), server |-> b, at |-> 0,
                                 id |-> Null] : b \in Behaviours}]
    /\ handler = Null
    /\ config = Null
    /\ now = 0

\* Call i starts to run: it builds initReq, whose id is `init-${Date.now()}`
\* (the text 'init-' followed by the decimal digits of the clock), and goes
\* on to the await of its POST.
Invoke(i) ==
    /\ Locals(calls, i).pc = "start"
    /\ calls' = [calls EXCEPT ![i].locals = Invoked(Locals(calls, i)),
                              ![i].id = Some([prefix |-> "init-", ms |-> now])]
    /\ UNCHANGED <<detectVars, handler, config, now>>

\* The next event of its server happens to call i.
Deliver(i) ==
    /\ calls[i].at < Len(calls[i].server)
    /\ Awaits(Locals(calls, i), calls[i].server[calls[i].at + 1])
    /\ calls' = [calls EXCEPT
                    ![i].locals = Step(Locals(calls, i), calls[i].server[calls[i].at + 1]),
                    ![i].at = @ + 1]
    /\ UNCHANGED <<detectVars, handler, config, now>>

\* A millisecond passes.
Tick ==
    /\ now < MaxClock
    /\ now' = now + 1
    /\ UNCHANGED <<detectVars, calls, handler, config>>

ParSpec ==
    /\ ParInit
    /\ [][Tick \/ \E i \in 1..NumCalls : Invoke(i) \/ Deliver(i)]_vars

\* The variables of a call that ran alone through the first k events of its
\* server.
RECURSIVE Alone(_, _)
Alone(server, k) ==
    IF k = 0 THEN Invoked(NewCall(Null))
    ELSE Step(Alone(server, k - 1), server[k])

-----------------------------------------------------------------------------
(* The install command: the handler that detects the transport of a URL *)

\* The string literals of the install command; both versions of the handler
\* use the same ones.
Words ==
    [httpScheme |-> <<"h", "t", "t", "p", ":", "/", "/">>,
     httpsScheme |-> <<"h", "t", "t", "p", "s", ":", "/", "/">>,
     npxPrefix |-> <<"n", "p", "x", " ">>,
     nodePrefix |-> <<"n", "o", "d", "e", " ">>,
     npx |-> <<"n", "p", "x">>,
     y |-> <<"-", "y">>,
     supergateway |-> <<"s", "u", "p", "e", "r", "g", "a", "t", "e", "w", "a", "y">>,
     streamableHttp |->
         <<"-", "-", "s", "t", "r", "e", "a", "m",
           "a", "b", "l", "e", "H", "t", "t", "p">>,
     sse |-> <<"-", "-", "s", "s", "e">>,
     header |-> <<"-", "-", "h", "e", "a", "d", "e", "r">>,
     mcpRemote |->
         <<"m", "c", "p", "-", "r", "e", "m", "o",
           "t", "e", "@", "l", "a", "t", "e", "s", "t">>,
     supermemoryHost |->
         <<"a", "p", "i", ".", "s", "u", "p", "e", "r",
           "m", "e", "m", "o", "r", "y", ".", "a", "i">>,
     projectPrefix |->
         <<"x", "-", "s", "m", "-", "p",
           "r", "o", "j", "e", "c", "t", ":">>,
     defaultProject |-> <<"d", "e", "f", "a", "u", "l", "t">>]

\* parts of input.split(' ')
RECURSIVE SplitSpaces(_)
SplitSpaces(str) ==
    LET i == IndexOf(str, <<" ">>)
    IN  IF i = -1 THEN <<str>>
        ELSE <<Slice(str, 0, i)>> \o SplitSpaces(SliceFrom(str, i + 1))

isUrl(input) == StartsWith(input, Words.httpScheme) \/ StartsWith(input, Words.httpsScheme)

isCommand(input) ==
    \/ IndexOf(input, <<" ">>) # -1
    \/ StartsWith(input, Words.npxPrefix)
    \/ StartsWith(input, Words.nodePrefix)

buildCommand(input) ==
    IF isUrl(input) THEN input
    ELSE IF isCommand(input) THEN input
    ELSE Words.npxPrefix \o input

\* parseHeaders: name and value around the first colon, trimmed; a header
\* without colon, name or value is dropped.
RECURSIVE parseHeaders(_)
parseHeaders(headers) ==
    IF headers = <<>> THEN <<>>
    ELSE LET header == Head(headers)
             colonIndex == IndexOf(header, <<":">>)
             name == Trim(Slice(header, 0, colonIndex))
             value == Trim(SliceFrom(header, colonIndex + 1))
         IN  (IF colonIndex # -1 /\ name # <<>> /\ value # <<>>
              THEN <<[name |-> name, value |-> value]>>
              ELSE <<>>) \o parseHeaders(Tail(headers))

\* args.push('--header', header) for each header
RECURSIVE HeaderArgs(_)
HeaderArgs(headers) ==
    IF headers = <<>> THEN <<>>
    ELSE <<Words.header, Head(headers)>> \o HeaderArgs(Tail(headers))

\* const transportFlag = transport === 'http' ? '--streamableHttp' : '--sse'
transportFlag(transport) ==
    IF transport = Some("http") THEN Words.streamableHttp ELSE Words.sse

\* ['-y', 'supergateway', transportFlag, target] and the headers
GatewayArgs(h) ==
    <<Words.y, Words.supergateway, transportFlag(h.transport), h.target[1]>>
        \o HeaderArgs(h.argv.header)

IsClient(c) == c \in {"claude", "cline", "roo-cline", "windsurf", "witsy", "enconvo",
                      "cursor", "warp", "gemini-cli", "vscode", "claude-code", "goose"}

UrlTarget == <<"h", "t", "t", "p", "s", ":", "/", "/", "a">>
Targets == {UrlTarget, <<"m", "c", "p">>, <<"n", "o", "d", "e", " ", "s">>}

NoTransport ==
    "Remote servers must support either streamable HTTP or legacy SSE transport method."

\* logger.prompt(question): the handler waits for the answer.
Prompt(h, question) ==
    [h EXCEPT !.pc = question, !.prompts = Append(@, question)]

Answered(h, answer) == [h EXCEPT !.answers = Append(@, answer)]

LogError(h, message) == [h EXCEPT !.errors = Append(@, message)]

Returned(h) == [h EXCEPT !.pc = "returned"]

\* if (ready) { try { readConfig ... setServerConfig ... writeConfig } catch }
InstallServer(h) ==
    LET target == h.target[1]
        cmdParts == SplitSpaces(buildCommand(target))
        serverConfig ==
            IF isUrl(target)
            THEN IF h.argv.client \in {"cursor", "vscode"}
                 THEN [kind |-> "url", url |-> target,
                       headers |-> parseHeaders(h.argv.header),
                       command |-> <<>>, args |-> <<>>]
                 ELSE [kind |-> "command", url |-> <<>>, headers |-> <<>>,
                       command |-> Words.npx, args |-> GatewayArgs(h)]
            ELSE [kind |-> "command", url |-> <<>>, headers |-> <<>>,
                  command |-> cmdParts[1], args |-> Tail(cmdParts)]
        h1 == [h EXCEPT !.reads = @ + 1]
    IN  IF h.fs = "unreadable" THEN Returned(LogError(h1, "readConfig or writeConfig threw"))
        ELSE IF h.fs = "unwritable"
        THEN Returned(LogError([h1 EXCEPT !.writes = @ + 1], "readConfig or writeConfig threw"))
        ELSE Returned([h1 EXCEPT !.writes = @ + 1, !.written = Some(serverConfig)])

\* The handler from const name = ... on: the warp branch, or the question
\* whether to install.
AfterTransport(h) ==
    IF h.argv.client = "warp"
    THEN LET target == h.target[1]
             warpArgs == IF isUrl(target) THEN GatewayArgs(h)
                         ELSE Tail(SplitSpaces(buildCommand(target)))
         IN  Returned([h EXCEPT !.printed = Some(warpArgs)])
    ELSE IF h.argv.yes THEN InstallServer(h)
    ELSE Prompt(h, "ready")

\* The handler detecting whatever argv.transport is.
AfterTargetAlwaysDetects(h) ==
    IF isUrl(h.target[1])
    THEN [h EXCEPT !.pc = "detecting", !.detections = @ + 1]
    ELSE AfterTransport([h EXCEPT !.transport = h.argv.transport])

\* let transport = argv.transport; if (isUrl(target) && !transport) detect.
AfterTarget(h) ==
    LET h1 == [h EXCEPT !.transport = h.argv.transport]
    IN  IF isUrl(h.target[1]) /\ h1.transport = Null
        THEN [h1 EXCEPT !.pc = "detecting", !.detections = @ + 1]
        ELSE AfterTransport(h1)

\* The confirmation ignored.
AfterConfirmKeepsDetected(h, confirmed) ==
    AfterTransport([Answered(h, confirmed) EXCEPT !.transport = h.detected])

\* A refused confirmation leaving the transport undefined.
AfterConfirmRefusedIsUndefined(h, confirmed) ==
    LET h1 == Answered(h, confirmed)
    IN  IF confirmed THEN AfterTransport([h1 EXCEPT !.transport = h.detected])
        ELSE AfterTransport(h1)

\* The answer to 'We've detected ... Is this correct?'
AfterConfirm(h, confirmed) ==
    LET h1 == Answered(h, confirmed)
    IN  IF confirmed THEN AfterTransport([h1 EXCEPT !.transport = h.detected])
        ELSE AfterTransport(
                 [h1 EXCEPT !.transport =
                      IF h.detected = Some("http") THEN Some("sse") ELSE Some("http")])

\* Two answers of no installing the legacy transport all the same.
AfterSseQuestionInstalls(h, usesLegacySSE) ==
    AfterTransport([Answered(h, usesLegacySSE) EXCEPT !.transport = Some("sse")])

\* The answer to 'Does your server use the legacy SSE transport method?'
AfterSseQuestion(h, usesLegacySSE) ==
    LET h1 == Answered(h, usesLegacySSE)
    IN  IF usesLegacySSE
        THEN AfterTransport([h1 EXCEPT !.transport = Some("sse")])
        ELSE Returned(LogError(h1, NoTransport))

\* The handler is called with argv; fs is whether the client's config file
\* can be read and written. argv.name is given.
InstallInit ==
    /\ NoCall
    /\ calls = <<>>
    /\ config = Null
    /\ now = 0
    /\ \E client \in {"claude", "cursor", "vscode", "warp", "nope"},
          target \in {Null} \cup {Some(t) : t \in Targets},
          transport \in {Null, Some("http"), Some("sse")},
          yes \in BOOLEAN,
          header \in {<<>>, <<<<"A", ":", " ", "b">>>>},
          fs \in {"ok", "unreadable", "unwritable"} :
          handler =
              [pc |-> "start", fs |-> fs, target |-> Null, transport |-> Null,
               argv |-> [client |-> client, target |-> target,
                         transport |-> transport, yes |-> yes, header |-> header],
               detected |-> Null, prompts |-> <<>>, answers |-> <<>>,
               errors |-> <<>>, detections |-> 0, reads |-> 0, writes |-> 0,
               written |-> Null, printed |-> Null]

\* The handler runs up to its first await.
HandlerCalled ==
    /\ handler.pc = "start"
    /\ handler' =
          IF ~IsClient(handler.argv.client)
          THEN Returned(LogError(handler, "Invalid client"))
          ELSE IF handler.argv.target = Null THEN Prompt(handler, "target")
          ELSE AfterTarget([handler EXCEPT !.target = handler.argv.target])
    /\ UNCHANGED <<detectVars, calls, config, now>>

TargetEntered ==
    /\ handler.pc = "target"
    /\ \E target \in Targets :
           handler' = AfterTarget([handler EXCEPT !.target = Some(target)])
    /\ UNCHANGED <<detectVars, calls, config, now>>

\* detectMcpTransport returned: ask to confirm, or ask the manual questions.
DetectionReturns ==
    /\ handler.pc = "detecting"
    /\ \E detectedTransport \in McpTransportKind :
          handler' = Prompt([handler EXCEPT !.detected = Some(detectedTransport)],
                            IF detectedTransport \in {"http", "sse"} THEN "confirm"
                            ELSE "http")
    /\ UNCHANGED <<detectVars, calls, config, now>>

ConfirmAnswered ==
    /\ handler.pc = "confirm"
    /\ \E answer \in BOOLEAN : handler' = AfterConfirm(handler, answer)
    /\ UNCHANGED <<detectVars, calls, config, now>>

\* The answer to 'Does this server support the streamable HTTP transport
\* method?'
HttpQuestionAnswered ==
    /\ handler.pc = "http"
    /\ \E supportsStreamableHttp \in BOOLEAN :
          LET h1 == Answered(handler, supportsStreamableHttp)
          IN  handler' = IF supportsStreamableHttp
                         THEN AfterTransport([h1 EXCEPT !.transport = Some("http")])
                         ELSE Prompt(h1, "sse")
    /\ UNCHANGED <<detectVars, calls, config, now>>

SseQuestionAnswered ==
    /\ handler.pc = "sse"
    /\ \E answer \in BOOLEAN : handler' = AfterSseQuestion(handler, answer)
    /\ UNCHANGED <<detectVars, calls, config, now>>

\* The answer to 'Install MCP server ... ?'
ReadyAnswered ==
    /\ handler.pc = "ready"
    /\ \E ready \in BOOLEAN :
          handler' = IF ready THEN InstallServer(Answered(handler, ready))
                     ELSE Returned(Answered(handler, ready))
    /\ UNCHANGED <<detectVars, calls, config, now>>

InstallSpec ==
    /\ InstallInit
    /\ [][\/ HandlerCalled
          \/ TargetEntered
          \/ DetectionReturns
          \/ ConfirmAnswered
          \/ HttpQuestionAnswered
          \/ SseQuestionAnswered
          \/ ReadyAnswered]_vars

-----------------------------------------------------------------------------
(* The install command: the handler that authenticates with OAuth *)

\* new URL(input).hostname === 'api.supermemory.ai', for an http(s) URL
\* without user, port or upper case: the hostname stands between :// and the
\* next slash.
isSupermemoryUrl(input) ==
    LET afterScheme == SliceFrom(input, IndexOf(input, <<":", "/", "/">>) + 3)
        slash == IndexOf(afterScheme, <<"/">>)
        hostname == IF slash = -1 THEN afterScheme ELSE Slice(afterScheme, 0, slash)
    IN  IndexOf(input, <<":", "/", "/">>) # -1 /\ hostname = Words.supermemoryHost

OauthTargets ==
    {UrlTarget,
     <<"h", "t", "t", "p", "s", ":", "/", "/", "a", "p", "i", ".", "s", "u", "p", "e",
       "r", "m", "e", "m", "o", "r", "y", ".", "a", "i", "/", "m">>,
     <<"m", "c", "p">>}

AuthenticationFailed == "Authentication failed. Use the client to authenticate."

\* if (ready) { try { readConfig ... writeConfig } catch } of this handler
OauthInstallServer(h) ==
    LET target == h.target[1]
        cmdParts == SplitSpaces(buildCommand(target))
        args == <<Words.y, Words.mcpRemote, target>> \o HeaderArgs(h.argv.header)
                    \o (IF h.projectHeader # Null
                        THEN <<Words.header, h.projectHeader[1]>> ELSE <<>>)
        serverConfig ==
            IF isUrl(target) THEN [command |-> Words.npx, args |-> args]
            ELSE [command |-> cmdParts[1], args |-> Tail(cmdParts)]
        h1 == [h EXCEPT !.reads = @ + 1]
    IN  IF h.fs = "unreadable" THEN Returned(LogError(h1, "readConfig or writeConfig threw"))
        ELSE IF h.fs = "unwritable"
        THEN Returned(LogError([h1 EXCEPT !.writes = @ + 1], "readConfig or writeConfig threw"))
        ELSE Returned([h1 EXCEPT !.writes = @ + 1, !.written = Some(serverConfig)])

\* The promise of runAuthentication resolved by any 'close'.
AuthenticationSettledAnyClose(ev) ==
    IF ev.event = "close" THEN "resolved" ELSE "rejected"

\* The promise of runAuthentication: resolved by 'close' with code 0,
\* rejected by any other 'close' and by 'error'.
AuthenticationSettled(ev) ==
    IF ev.event = "close" /\ ev.code = Some(0) THEN "resolved" ELSE "rejected"

\* The handler once usesOAuth is known: runAuthentication spawns the child
\* process, or the config is written.
AfterOauthKnown(h, usesOAuth) ==
    LET h1 == [h EXCEPT !.usesOAuth = Some(usesOAuth)]
    IN  IF usesOAuth
        THEN [h1 EXCEPT !.pc = "authenticating", !.spawned = @ + 1,
                        !.child = "running"]
        ELSE OauthInstallServer(h1)

\* if (ready) { if (isUrl(target)) { usesOAuth from --oauth or the prompt
OauthAfterReady(h, ready) ==
    IF ~ready THEN Returned(h)
    ELSE IF isUrl(h.target[1])
    THEN IF h.argv.oauth = Some("yes") THEN AfterOauthKnown(h, TRUE)
         ELSE IF h.argv.oauth = Some("no") THEN AfterOauthKnown(h, FALSE)
         ELSE Prompt(h, "oauth")
    ELSE OauthInstallServer(h)

\* The handler from the check of the project on: the warp branch, or the
\* question whether to install.
AfterProject(h, project) ==
    IF project # Null /\ \E i \in 1..Len(project[1]) : project[1][i] \in WhiteSpace
    THEN Returned(LogError(h,
                          "Project must not contain spaces. Use hyphens or underscores instead."))
    ELSE LET h1 == [h EXCEPT !.projectHeader =
                        IF project = Null THEN Null
                        ELSE Some(Words.projectPrefix \o project[1])]
             target == h.target[1]
             warpArgs ==
                 IF isUrl(target)
                 THEN <<Words.y, Words.mcpRemote, target>> \o HeaderArgs(h.argv.header)
                          \o (IF h1.projectHeader # Null
                              THEN <<Words.header, h1.projectHeader[1]>> ELSE <<>>)
                 ELSE Tail(SplitSpaces(buildCommand(target)))
         IN  IF h.argv.client = "warp"
             THEN Returned([h1 EXCEPT !.printed = Some(warpArgs)])
             ELSE IF h.argv.yes THEN OauthAfterReady(h1, TRUE)
             ELSE Prompt(h1, "ready")

\* The handler from const name = ... to the project of a Supermemory URL
OauthAfterTarget(h) ==
    IF isUrl(h.target[1]) /\ isSupermemoryUrl(h.target[1])
    THEN IF h.argv.project = Null \/ Trim(h.argv.project[1]) = <<>>
         THEN Prompt(h, "project")
         ELSE AfterProject(h, h.argv.project)
    ELSE AfterProject(h, Null)

\* The handler is called with argv; argv.name is given, argv.env and
\* argv.header are not.
OauthInit ==
    /\ NoCall
    /\ calls = <<>>
    /\ config = Null
    /\ now = 0
    /\ \E client \in {"claude", "warp", "nope"},
          target \in {Null} \cup {Some(t) : t \in OauthTargets},
          oauth \in {Null, Some("yes"), Some("no")}, yes \in BOOLEAN,
          project \in {Null} \cup {Some(q) : q \in {<<>>, <<"p">>, <<"a", " ", "b">>}},
          fs \in {"ok", "unreadable", "unwritable"} :
          handler =
              [pc |-> "start", fs |-> fs, target |-> Null, projectHeader |-> Null,
               argv |-> [client |-> client, target |-> target, oauth |-> oauth,
                         yes |-> yes, project |-> project, header |-> <<>>],
               usesOAuth |-> Null, auth |-> Null, child |-> "none",
               prompts |-> <<>>, answers |-> <<>>, errors |-> <<>>, spawned |-> 0,
               reads |-> 0, writes |-> 0, written |-> Null, printed |-> Null]

\* The handler runs up to its first await.
OauthHandlerCalled ==
    /\ handler.pc = "start"
    /\ handler' =
          IF ~IsClient(handler.argv.client)
          THEN Returned(LogError(handler, "Invalid client"))
          ELSE IF handler.argv.target = Null THEN Prompt(handler, "target")
          ELSE OauthAfterTarget([handler EXCEPT !.target = handler.argv.target])
    /\ UNCHANGED <<detectVars, calls, config, now>>

OauthTargetEntered ==
    /\ handler.pc = "target"
    /\ \E target \in OauthTargets :
           handler' = OauthAfterTarget([handler EXCEPT !.target = Some(target)])
    /\ UNCHANGED <<detectVars, calls, config, now>>

\* The project prompt is answered: project = (input || '').trim() || 'default'
ProjectEntered ==
    /\ handler.pc = "project"
    /\ \E input \in {<<>>, <<"p">>, <<"a", " ", "b">>} :
          handler' = AfterProject(handler,
                                  Some(IF Trim(input) = <<>> THEN Words.defaultProject
                                       ELSE Trim(input)))
    /\ UNCHANGED <<detectVars, calls, config, now>>

OauthReadyAnswered ==
    /\ handler.pc = "ready"
    /\ \E answer \in BOOLEAN :
           handler' = OauthAfterReady(Answered(handler, answer), answer)
    /\ UNCHANGED <<detectVars, calls, config, now>>

OauthQuestionAnswered ==
    /\ handler.pc = "oauth"
    /\ \E answer \in BOOLEAN :
           handler' = AfterOauthKnown(Answered(handler, answer), answer)
    /\ UNCHANGED <<detectVars, calls, config, now>>

\* The child process emits its first event, 'close' with an exit code (Null
\* when a signal ended it) or 'error': the promise settles, and the handler
\* goes on after await runAuthentication(target).
ChildEmits ==
    /\ handler.pc = "authenticating"
    /\ handler.child = "running"
    /\ \E ev \in {[event |-> "close", code |-> Some(0)],
                   [event |-> "close", code |-> Some(1)],
                   [event |-> "close", code |-> Null],
                   [event |-> "error", code |-> Null]} :
          LET h1 == [handler EXCEPT
                         !.child = IF ev.event = "close" THEN "closed" ELSE "errored",
                         !.auth = Some(ev)]
          IN  handler' = IF AuthenticationSettled(ev) = "resolved"
                         THEN OauthInstallServer(h1)
                         ELSE Returned(LogError(h1, AuthenticationFailed))
    /\ UNCHANGED <<detectVars, calls, config, now>>

\* The child process that could not be spawned emits 'close' after 'error':
\* the promise is settled already.
ChildClosesAfterError ==
    /\ handler.child = "errored"
    /\ handler' = [handler EXCEPT !.child = "closed"]
    /\ UNCHANGED <<detectVars, calls, config, now>>

OauthSpec ==
    /\ OauthInit
    /\ [][\/ OauthHandlerCalled
          \/ OauthTargetEntered
          \/ ProjectEntered
          \/ OauthReadyAnswered
          \/ OauthQuestionAnswered
          \/ ChildEmits
          \/ ChildClosesAfterError]_vars

-----------------------------------------------------------------------------
(* The client's config file: writeConfig *)

\* JSON values as the code sees them. An object is a function from its keys.
Undefined == [undefined |-> TRUE]
JsNull == [null |-> TRUE]
Str(chars) == [str |-> chars]
Arr(elements) == [arr |-> elements]
Obj(props) == [obj |-> props]
EmptyObj == Obj(<<>>)

IsArr(v) == DOMAIN v = {"arr"}
IsObj(v) == DOMAIN v = {"obj"}

\* A value in a condition: if (v), !v, v || {}
Truthy(v) == v # Undefined /\ v # JsNull /\ v # Str(<<>>)

\* typeof v === 'object'
TypeofObject(v) == IsObj(v) \/ IsArr(v) \/ v = JsNull

\* The key of index i of an array or string.
IndexKey(i) == <<"0", "1", "2", "3", "4", "5", "6", "7", "8", "9">>[i + 1]

\* The own enumerable properties of a value: what { ...v } copies, and what
\* key in v finds on an object.
OwnProps(v) ==
    IF IsObj(v) THEN v.obj
    ELSE IF IsArr(v)
    THEN [k \in {IndexKey(i - 1) : i \in 1..Len(v.arr)} |->
             v.arr[CHOOSE i \in 1..Len(v.arr) : IndexKey(i - 1) = k]]
    ELSE IF DOMAIN v = {"str"}
    THEN [k \in {IndexKey(i - 1) : i \in 1..Len(v.str)} |->
             Str(<<v.str[CHOOSE i \in 1..Len(v.str) : IndexKey(i - 1) = k]>>)]
    ELSE <<>>

\* obj with obj[key] = value
SetProp(props, key, value) ==
    [k \in DOMAIN props \cup {key} |-> IF k = key THEN value ELSE props[k]]

RECURSIVE getNestedValue(_, _)
getNestedValue(obj, keys) ==
    IF keys = <<>> THEN obj
    ELSE IF Truthy(obj) /\ TypeofObject(obj) /\ Head(keys) \in DOMAIN OwnProps(obj)
    THEN getNestedValue(OwnProps(obj)[Head(keys)], Tail(keys))
    ELSE Undefined

\* setNestedValue on an object of objects
RECURSIVE setNestedValue(_, _, _)
setNestedValue(obj, keys, value) ==
    IF Len(keys) = 1 THEN Obj(SetProp(obj.obj, Head(keys), value))
    ELSE LET key == Head(keys)
             current == IF key \in DOMAIN obj.obj /\ Truthy(obj.obj[key])
                        THEN obj.obj[key] ELSE EmptyObj
         IN  Obj(SetProp(obj.obj, key, setNestedValue(current, Tail(keys), value)))

RECURSIVE deepMerge(_, _)
deepMerge(target, source) ==
    LET t == OwnProps(target)
        src == source.obj
    IN  Obj([key \in DOMAIN t \cup DOMAIN src |->
                IF key \notin DOMAIN src THEN t[key]
                ELSE IF Truthy(src[key]) /\ TypeofObject(src[key]) /\ ~IsArr(src[key])
                THEN deepMerge(IF key \in DOMAIN t /\ Truthy(t[key])
                               THEN t[key] ELSE EmptyObj,
                               src[key])
                ELSE src[key]])

\* configPath.configKey.split('.') of the client
configKey == <<"mcpServers">>

\* The config file is absent (Null) or holds text: JSON.stringify of a value,
\* which JSON.parse gives back, or text that JSON.parse rejects.
JsonText(value) == Some([parses |-> TRUE, value |-> value])

\* writeConfigFile: the file after the call, and whether the call threw.
\* readable: fs.readFileSync succeeds; writable: fs.writeFileSync succeeds.
writeConfigFile(cfg, file, readable, writable) ==
    LET default == setNestedValue(EmptyObj, configKey, EmptyObj)
        existingConfig == IF file # Null /\ readable /\ file[1].parses
                          THEN file[1].value ELSE default
        mergedConfig == deepMerge(existingConfig, cfg)
    IN  IF writable THEN [threw |-> FALSE, file |-> JsonText(mergedConfig)]
        ELSE [threw |-> TRUE, file |-> file]

writeConfig(cfg, file, readable, writable) ==
    LET nestedValue == getNestedValue(cfg, configKey)
    IN  IF ~Truthy(nestedValue) \/ ~TypeofObject(nestedValue)
        THEN [threw |-> TRUE, file |-> file]
        ELSE writeConfigFile(cfg, file, readable, writable)

\* What the file may hold before the first write.
Files ==
    { Null,
      Some([parses |-> FALSE, value |-> Undefined]),
      JsonText(Obj([k \in {"mcpServers", "otherKey"} |->
                       IF k = "mcpServers"
                       THEN Obj([e \in {"server1"} |->
                                    Obj([c \in {"command"} |-> Str(<<"o", "l", "d">>)])])
                       ELSE Str(<<"v", "a", "l", "u", "e">>)])),
      JsonText(Obj([k \in {"mcpServers"} |-> Arr(<<>>)])) }

\* The configs writeConfig may be given.
Configs ==
    LET NewServer == Obj([c \in {"command"} |-> Str(<<"n", "e", "w">>)])
        Servers(section) == Obj([k \in {"mcpServers"} |-> section])
    IN  { Servers(Obj([e \in {"server2"} |-> NewServer])),
          Servers(Obj([e \in {"server1"} |-> NewServer])),
          Servers(Str(<<"i", "n", "v", "a", "l", "i", "d">>)),
          Servers(Arr(<<>>)),
          EmptyObj }

ConfigInit ==
    /\ NoCall
    /\ calls = <<>>
    /\ handler = Null
    /\ now = 0
    /\ \E file \in Files :
          config = [file |-> file, before |-> file, given |-> Undefined,
                    outcome |-> "none", readable |-> TRUE, writes |-> 0]

\* writeConfig(cfg, client, local) is called.
WriteConfig ==
    /\ config.writes < MaxWrites
    /\ \E cfg \in Configs, readable \in BOOLEAN, writable \in BOOLEAN :
          LET r == writeConfig(cfg, config.file, readable, writable)
          IN  config' = [file |-> r.file, before |-> config.file, given |-> cfg,
                         outcome |-> IF r.threw THEN "threw" ELSE "written",
                         readable |-> readable, writes |-> config.writes + 1]
    /\ UNCHANGED <<detectVars, calls, handler, now>>

ConfigSpec == ConfigInit /\ [][WriteConfig]_vars

-----------------------------------------------------------------------------
(* Vocabulary of the properties *)

Done == pc = "done"

\* The POST was answered, with one of the statuses sts.
PostAnswered(sts) == postRes # Null /\ postRes[1].status \in sts

\* The header value raw names the MIME type mime: before any ';', between
\* optional white space, in any letter case.
NamesMime(raw, mime) ==
    /\ raw # Null
    /\ \E a \in 0..Len(raw[1]) : \E b \in a..Len(raw[1]) :
          /\ \A k \in 1..a : raw[1][k] \in WhiteSpace
          /\ \A k \in 1..b : raw[1][k] # ";"
          /\ ToLowerCase(Slice(raw[1], a, b)) = mime
          /\ \/ \A k \in (b + 1)..Len(raw[1]) : raw[1][k] \in WhiteSpace
             \/ \E e \in (b + 1)..Len(raw[1]) :
                   /\ raw[1][e] = ";"
                   /\ \A k \in (b + 1)..(e - 1) : raw[1][k] \in WhiteSpace

\* The string str is core with white space around it.
IsPadded(str, core) ==
    \E a \in 0..Len(str) :
        /\ a + Len(core) <= Len(str)
        /\ Slice(str, a, a + Len(core)) = core
        /\ \A k \in 1..a : str[k] \in WhiteSpace
        /\ \A k \in (a + Len(core) + 1)..Len(str) : str[k] \in WhiteSpace

\* The frame f names the event endpoint.
NamesEndpoint(f) == f.event # Null /\ IsPadded(f.event[1], Endpoint)

\* The response res of a GET decides nothing: not a 405, and no event stream.
NotAnEventStream(res) ==
    res.status # 405 /\ ~NamesMime(res.contentType, TextEventStream)

\* The names of the timers armed so far, in order.
WaitNames == [i \in 1..Len(waits) |-> waits[i].timer]

IsPrefix(p, q) == Len(p) <= Len(q) /\ SubSeq(q, 1, Len(p)) = p

-----------------------------------------------------------------------------
(* Properties *)

\* C1: a call never throws to its caller: whatever the server and the network
\* do, it settles with http, sse or unknown and with nothing else, and while
\* it has not settled it waits under an armed timer (or for the read that
\* reader.cancel() ends), so it cannot wait for ever.
C1_NeverThrows ==
    /\ result \in McpTransportKind \cup {"pending"}
    /\ Done <=> result \in McpTransportKind
    /\ pc \in {"POST", "GET"} => pc \in timers
    /\ pc = "READ" => ("READ" \in timers \/ timedOut)

\* The POST got no response, the GET opened an event stream, and the read of
\* the first frame failed, ended or timed out.
C1_Witness ==
    /\ Done
    /\ postRes = Null
    /\ getRes # Null /\ ReadsBody(getRes[1])
    /\ first = Null
    /\ result = "unknown"

\* C2: one call issues the POST once and the GET at most once.
C2_AtMostTwoRequests ==
    /\ posts <= 1
    /\ gets <= 1
    /\ Done => posts = 1

\* C3: a POST answered 2xx with a content-type naming application/json or
\* text/event-stream makes the call return http, and no GET is ever issued.
C3_PostSuccessIsHttp ==
    ( /\ PostAnswered(200..299)
      /\ \/ NamesMime(postRes[1].contentType, ApplicationJson)
         \/ NamesMime(postRes[1].contentType, TextEventStream) )
    => /\ Done
       /\ result = "http"
       /\ gets = 0
       /\ WaitNames = <<"POST">>

\* The POST was answered 200 with "Application/JSON;charset=utf-8".
C3_Witness ==
    /\ Done
    /\ postRes = Some(Response(200, Some(JsonWithCharset), TRUE))
    /\ result = "http"

\* C4: when the POST gets no response, exactly one GET probe runs and the
\* call returns its outcome: http for a GET answered 405, unknown for a GET
\* without response.
C4_NoPostResponse ==
    (Done /\ postRes = Null)
    => /\ gets = 1
       /\ Len(probes) = 1
       /\ result = probes[1].kind
       /\ (getRes # Null /\ getRes[1].status = 405) => result = "http"
       /\ getRes = Null => result = "unknown"

\* The POST got no response and the GET was answered 405.
C4_Witness ==
    /\ Done
    /\ postRes = Null
    /\ getRes # Null /\ getRes[1].status = 405
    /\ result = "http"

\* C5: a GET answered 405 makes the probe, and the call, return http whatever
\* the content-type of the answer, and its body is never read.
C5_Get405IsHttp ==
    (getRes # Null /\ getRes[1].status = 405)
    => /\ Done
       /\ result = "http"
       /\ probes[Len(probes)] = [res |-> getRes, kind |-> "http"]
       /\ first = Null
       /\ text = <<>>
       /\ waits[Len(waits)].timer = "GET"

\* The GET was answered 405 without a content-type.
C5_Witness ==
    /\ Done
    /\ getRes = Some(Response(405, Null, FALSE))
    /\ result = "http"

\* C6: once a GET was answered with a status other than 405 and a
\* content-type that does not name text/event-stream, the call returns
\* unknown.
C6_NonStreamGetIsUnknown ==
    (Done /\ \E i \in 1..Len(probes) :
                 probes[i].res # Null /\ NotAnEventStream(probes[i].res[1]))
    => result = "unknown"

\* C7: when the GET probe obtains a first frame, the call returns sse if the
\* event name of that frame, trimmed, is endpoint, and http otherwise; the
\* frame is the text before the first blank line of the stream, whatever
\* follows it.
C7_FirstFrameDecides ==
    (Done /\ first # Null)
    => /\ result = IF NamesEndpoint(first[1]) THEN "sse" ELSE "http"
       /\ IndexOf(text, Boundary) # -1
       /\ first[1] = ParseFrame(Slice(text, 0, IndexOf(text, Boundary)))

\* The first frame is "event:  endpoint " and the call returns sse.
C7_Witness ==
    /\ Done
    /\ first # Null
    /\ text = TxtPadded
    /\ result = "sse"

\* C8: after a POST answered 401 or 403 the GET probe is issued, once, and
\* the call returns unknown when that probe decides nothing.
C8_AuthStillProbes ==
    PostAnswered({401, 403})
    => /\ gets = 1
       /\ Done =>
            /\ Len(probes) = 1
            /\ ( \/ getRes = Null
                 \/ NotAnEventStream(getRes[1])
                 \/ (getRes[1].status # 405 /\ first = Null) )
               => result = "unknown"

\* The POST was answered 401, the GET 401 without content-type.
C8_Witness ==
    /\ Done
    /\ PostAnswered({401})
    /\ getRes = Some(Response(401, Null, TRUE))
    /\ gets = 1
    /\ result = "unknown"

C10_AtMostThreeWaits ==
    /\ IsPrefix(WaitNames, <<"POST", "GET", "READ">>)
    /\ \A i \in 1..Len(waits) : waits[i].ms = timeoutMs

\* C17: after the call returned, no response stream it was handed is still
\* open or locked by a reader.
C17_NoStreamLeftOpen ==
    Done => \A i \in 1..Len(streams) : streams[i].state \notin {"open", "locked"}

\* C18: only the timer of the wait in progress is armed: the abort timer of a
\* request is disarmed once the request settled, the timer of the frame read
\* once the reader returned, and none is armed after the call returned.
C18_TimersDisarmed ==
    timers \subseteq (IF pc \in {"POST", "GET", "READ"} THEN {pc} ELSE {})

\* The call returned after three waits, the last one a read that ended
\* without a frame.
C18_Witness ==
    /\ Done
    /\ WaitNames = <<"POST", "GET", "READ">>
    /\ first = Null
    /\ StreamState(Cur) \in {"closed", "errored", "cancelled"}

\* C19: while the reader reads, all it was delivered is in the buffer and
\* holds no blank-line boundary; the step in which a chunk completes the first
\* boundary is the step in which the call gets the first frame of the stream,
\* parsed, with the stream not ended and nothing more read from it.
C19_ReturnsAtFirstBoundary ==
    [][pc = "READ" =>
         /\ pc' = "READ" =>
               /\ IndexOf(buf', Boundary) = -1
               /\ buf' \o rest' = text
         /\ (pc' # "READ" /\ StreamState(Cur) = "locked" /\ streams' = streams) =>
               /\ IndexOf(text, Boundary) # -1
               /\ first' = Some(ParseFrame(Slice(text, 0, IndexOf(text, Boundary))))
               /\ Done'
               /\ \E n \in 1..Len(rest) :
                     /\ IndexOf(buf \o Slice(rest, 0, n), Boundary) # -1
                     /\ IndexOf(buf \o Slice(rest, 0, n - 1), Boundary) = -1]_vars

\* The call returned on the first frame of a stream of two frames that the
\* server never ended.
C19_Witness ==
    /\ Done
    /\ text = TxtTwoFrames
    /\ first = Some(ParseFrame(<<"i", "d", ":", " ", "1">>))
    /\ StreamState(Cur) = "locked"

\* C20: when the timer of the frame read fires, cancellation of the stream is
\* requested whether or not it succeeds; the only step the reader then takes
\* is to return none, so that the probe returns unknown; and it does take it.
C20_TimeoutReturnsNone ==
    /\ [][(~timedOut /\ timedOut') =>
             /\ pc' = "READ"
             /\ StreamState(Cur)' \in {"cancelled", "cancelFailed"}]_vars
    /\ [][timedOut =>
             /\ pc' # "READ"
             /\ first' = Null
             /\ probes' = Append(probes, [res |-> getRes, kind |-> "unknown"])]_vars
    /\ []<>(~timedOut)

\* The server sent no frame, the cancellation failed, and the call returned
\* unknown.
C20_Witness ==
    /\ Done
    /\ result = "unknown"
    /\ first = Null
    /\ StreamState(Cur) = "cancelFailed"

TransportQuestions(h) ==
    SelectSeq(h.prompts, LAMBDA q : q \in {"confirm", "http", "sse"})

\* The gateway flag in the arguments the handler wrote to the config or
\* printed for Warp, if it wrote or printed gateway arguments.
FlagsWritten(h) ==
    (IF h.written # Null /\ h.written[1].kind = "command" /\ isUrl(h.target[1])
     THEN {h.written[1].args[3]} ELSE {})
    \cup (IF h.printed # Null /\ isUrl(h.target[1]) THEN {h.printed[1][3]} ELSE {})

\* C12: with a URL target and --transport given, no detection is run and no
\* transport question asked, and the gateway arguments carry --streamableHttp
\* for http and --sse for sse; with a target that is no URL, no detection is
\* run and no transport question asked.
C12_GivenTransportIsUsed ==
    handler.target # Null =>
        /\ (isUrl(handler.target[1]) /\ handler.argv.transport # Null) =>
              /\ handler.detections = 0
              /\ TransportQuestions(handler) = <<>>
              /\ FlagsWritten(handler) \subseteq
                     {IF handler.argv.transport = Some("http")
                      THEN Words.streamableHttp ELSE Words.sse}
        /\ ~isUrl(handler.target[1]) =>
              /\ handler.detections = 0
              /\ TransportQuestions(handler) = <<>>

\* A URL was installed with --transport sse: the config holds the gateway
\* arguments with --sse.
C12_Witness ==
    /\ handler.pc = "returned"
    /\ handler.target = Some(UrlTarget)
    /\ handler.argv.transport = Some("sse")
    /\ handler.written # Null
    /\ FlagsWritten(handler) = {Words.sse}

\* C13: when detection returned http or sse, the one transport question is
\* the confirmation; once answered, the transport is the detected one if the
\* user confirmed and the other one if not, and that is what is installed.
C13_ConfirmOnce ==
    (handler.detected # Null /\ handler.detected[1] \in {"http", "sse"}) =>
        /\ TransportQuestions(handler) = <<"confirm">>
        /\ handler.pc # "confirm" =>
              LET chosen == IF handler.answers[1] THEN handler.detected[1]
                            ELSE IF handler.detected[1] = "http" THEN "sse"
                            ELSE "http"
              IN  /\ handler.transport = Some(chosen)
                  /\ FlagsWritten(handler) \subseteq
                         {IF chosen = "http" THEN Words.streamableHttp ELSE Words.sse}

\* http was detected, the user declined, and the gateway was installed with
\* --sse.
C13_Witness ==
    /\ handler.pc = "returned"
    /\ handler.detected = Some("http")
    /\ handler.answers[1] = FALSE
    /\ handler.written # Null
    /\ FlagsWritten(handler) = {Words.sse}

\* C14: when detection returned unknown, the streamable-HTTP question is asked
\* first and the legacy-SSE question only after the answer no; after two
\* answers of no the error is logged and the handler has returned without
\* reading or writing a config.
C14_ManualQuestions ==
    handler.detected = Some("unknown") =>
        /\ TransportQuestions(handler) \in {<<"http">>, <<"http", "sse">>}
        /\ Len(handler.answers) >= 1 =>
              (TransportQuestions(handler) = <<"http", "sse">>
                   <=> handler.answers[1] = FALSE)
        /\ (Len(handler.answers) >= 2 /\ ~handler.answers[1] /\ ~handler.answers[2]) =>
              /\ handler.pc = "returned"
              /\ handler.errors = <<NoTransport>>
              /\ handler.reads = 0
              /\ handler.writes = 0
              /\ handler.written = Null
              /\ handler.printed = Null

\* Detection returned unknown, both questions were answered no, and the
\* handler returned with the error.
C14_Witness ==
    /\ handler.pc = "returned"
    /\ handler.detected = Some("unknown")
    /\ handler.prompts = <<"http", "sse">>
    /\ handler.answers = <<FALSE, FALSE>>
    /\ handler.errors = <<NoTransport>>

\* C15: the config of a URL target is written only after OAuth was ruled out
\* (declined, or --oauth no) or the authentication child process closed with
\* code 0; when the child closed otherwise or emitted an error,
\* 'Authentication failed' is logged, the handler has returned and
\* writeConfig was never called; for a target that is no URL no child process
\* is ever spawned.
C15_WriteOnlyAfterAuthentication ==
    handler.target # Null =>
        /\ (isUrl(handler.target[1]) /\ handler.writes > 0) =>
              \/ handler.usesOAuth = Some(FALSE)
              \/ handler.auth = Some([event |-> "close", code |-> Some(0)])
        /\ (handler.auth # Null
               /\ handler.auth # Some([event |-> "close", code |-> Some(0)])) =>
              /\ handler.pc = "returned"
              /\ handler.errors = <<AuthenticationFailed>>
              /\ handler.writes = 0
              /\ handler.written = Null
        /\ ~isUrl(handler.target[1]) => handler.spawned = 0
        /\ handler.spawned <= 1

\* The user said the server uses OAuth, the child process closed with code 1,
\* and the handler returned with the error and without a write.
C15_Witness ==
    /\ handler.pc = "returned"
    /\ handler.usesOAuth = Some(TRUE)
    /\ handler.spawned = 1
    /\ handler.auth = Some([event |-> "close", code |-> Some(1)])
    /\ handler.errors = <<AuthenticationFailed>>
    /\ handler.writes = 0

\* The server entries of a config value: the properties of its server
\* section when that is an object, none otherwise.
ServerEntries(value) ==
    IF IsObj(getNestedValue(value, configKey))
    THEN getNestedValue(value, configKey).obj ELSE <<>>

\* C16: a successful write on a file that held a config object keeps every
\* top-level key and every server entry the new config does not name, with
\* its value, and the file then holds the new server entries; a config whose
\* server section is not an object makes writeConfig throw and leaves the
\* file as it was.
C16_WritePreserves ==
    /\ (config.outcome = "written" /\ config.before # Null
           /\ config.before[1].parses /\ IsObj(config.before[1].value)) =>
          LET old == config.before[1].value
              new == config.file[1].value
          IN  /\ \A k \in DOMAIN old.obj \ DOMAIN config.given.obj :
                    k \in DOMAIN new.obj /\ new.obj[k] = old.obj[k]
              /\ \A e \in DOMAIN ServerEntries(old)
                            \ DOMAIN ServerEntries(config.given) :
                    /\ e \in DOMAIN ServerEntries(new)
                    /\ ServerEntries(new)[e] = ServerEntries(old)[e]
              /\ \A e \in DOMAIN ServerEntries(config.given) :
                    e \in DOMAIN ServerEntries(new)
    /\ (config.outcome # "none"
           /\ ~IsObj(getNestedValue(config.given, configKey))) =>
          /\ config.outcome = "threw"
          /\ config.file = config.before

-----------------------------------------------------------------------------
(* The frame reader: end of stream, boundaries, fields, chunks *)

\* C21: when the stream ends or a read raises while the reader waits for a
\* blank line, whatever the buffer holds (a whole 'event: endpoint' line
\* included), readFirstSseEvent returns null and legacyProbe returns unknown.
C21_EndBeforeBoundaryIsNone ==
    [][(/\ pc = "READ"
        /\ StreamState(Cur) = "locked"
        /\ streams' # streams
        /\ streams'[Len(streams')].state \in {"closed", "errored"})
       => (/\ first' = Null
           /\ probes' = Append(probes, [res |-> getRes, kind |-> "unknown"]))]_vars

\* The reader has received 'event: endpoint' and its newline, and the stream
\* can end now.
C21_Witness ==
    /\ pc = "READ"
    /\ StreamState(Cur) = "locked"
    /\ buf = TxtNoBoundary
    /\ rest = <<>>

\* Where the first frame of txt ends: at the first blank line, written as
\* \n\n or as \r\n\r\n (-1 when txt has none).
FrameEnd(txt) ==
    LET lf == IndexOf(txt, Boundary)
        crlf == IndexOf(txt, <<CR, LF, CR, LF>>)
    IN  IF crlf # -1 /\ (lf = -1 \/ crlf < lf) THEN crlf ELSE lf

\* C22: a blank line written as \r\n\r\n ends the first frame: the reader
\* does not go on waiting once its buffer holds one, and the frame it returns
\* is the text before the first blank line of either form, so that no field
\* of a later frame is in it.
C22_CrLfEndsFrame ==
    /\ pc = "READ" => IndexOf(buf, <<CR, LF, CR, LF>>) = -1
    /\ (pc = "done" /\ first # Null)
           => first = Some(ParseFrame(Slice(text, 0, FrameEnd(text))))

\* The lines of the first frame of txt as the reader finds it.
FrameLines(txt) == SplitLines(Slice(txt, 0, IndexOf(txt, Boundary)))

\* The field name of a line: the trimmed text before its first ':'.
FieldName(line) ==
    LET colon == IndexOf(line, <<":">>)
    IN  Trim(IF colon = -1 THEN line ELSE Slice(line, 0, colon))

\* The positions in lines of the lines that are no comments and are named name.
Named(lines, name) ==
    {i \in 1..Len(lines) : ~StartsWith(lines[i], <<":">>) /\ FieldName(lines[i]) = name}

\* The last of a non-empty set of positions.
Last(positions) == CHOOSE i \in positions : \A j \in positions : j <= i

\* The text after the first ':' of a line with at most one leading space
\* removed; empty for a line without ':'.
AfterOneSpace(line) ==
    LET colon == IndexOf(line, <<":">>)
        after == SliceFrom(line, colon + 1)
    IN  IF colon = -1 THEN <<>>
        ELSE IF after # <<>> /\ Head(after) = " " THEN Tail(after)
        ELSE after

\* C23: the value of a field is the text after the first ':' of its line with
\* at most one leading space removed: the event and id of the returned frame
\* are that text of their last line, and the data of a frame with one data
\* line is that text of the line.
C23_OneLeadingSpaceRemoved ==
    (pc = "done" /\ first # Null) =>
        LET lines == FrameLines(text)
            events == Named(lines, EventField)
            ids == Named(lines, IdField)
            datas == Named(lines, DataField)
        IN  /\ events # {} => first[1].event = Some(AfterOneSpace(lines[Last(events)]))
            /\ ids # {} => first[1].id = Some(AfterOneSpace(lines[Last(ids)]))
            /\ Cardinality(datas) = 1
                   => first[1].data = Some(AfterOneSpace(lines[Last(datas)]))

\* The value the code gives the field of a line: the text after the first
\* ':' without its leading whitespace; empty for a line without ':'.
ValueOf(line) ==
    LET colon == IndexOf(line, <<":">>)
    IN  IF colon = -1 THEN <<>> ELSE TrimStart(SliceFrom(line, colon + 1))

\* C24: the data of the returned frame is the values of its data lines, in
\* their order, joined by newlines, and a frame without data line has no
\* data; the event is the value of the last event line; the example stream
\* gives event 'endpoint' and data 'line1\nline2'.
C24_DataJoinedLastEventWins ==
    (pc = "done" /\ first # Null) =>
        LET lines == FrameLines(text)
            IsData(l) == ~StartsWith(l, <<":">>) /\ FieldName(l) = DataField
            dataLines == SelectSeq(lines, IsData)
            values == [i \in 1..Len(dataLines) |-> ValueOf(dataLines[i])]
            events == Named(lines, EventField)
        IN  /\ first[1].data = IF dataLines = <<>> THEN Null ELSE Some(Join(values))
            /\ first[1].event = IF events = {} THEN Null
                                ELSE Some(ValueOf(lines[Last(events)]))
            /\ text = TxtDataLines
                   => first[1] = [event |-> Some(Endpoint),
                                  data |-> Some(<<"l", "i", "n", "e", "1", LF,
                                                  "l", "i", "n", "e", "2">>),
                                  id |-> Null]

\* The reader returned the frame of the example stream.
C24_Witness ==
    /\ pc = "done"
    /\ text = TxtDataLines
    /\ first # Null
    /\ first[1].data = Some(<<"l", "i", "n", "e", "1", LF, "l", "i", "n", "e", "2">>)

\* Whether a line is a comment or names a field other than event, data, id.
Ignored(line) ==
    StartsWith(line, <<":">>) \/ FieldName(line) \notin {EventField, DataField, IdField}

\* C25: comment lines and lines of any other field than event, data and id
\* (retry included) change nothing: the returned frame is the frame parsed
\* from the same lines without them.
C25_IgnoredLinesChangeNothing ==
    (pc = "done" /\ first # Null) =>
        LET Kept(l) == ~Ignored(l)
        IN  first = Some(ParseFrame(Join(SelectSeq(FrameLines(text), Kept))))

\* The reader returned the frame of a stream with a comment line, a retry
\* line and an event line.
C25_Witness ==
    /\ pc = "done"
    /\ first # Null
    /\ first[1].event = Some(Endpoint)
    /\ \E i, j \in 1..Len(FrameLines(text)) :
           /\ StartsWith(FrameLines(text)[i], <<":">>)
           /\ FieldName(FrameLines(text)[j]) = <<"r", "e", "t", "r", "y">>

-----------------------------------------------------------------------------
(* The order of the requests of one call *)

\* C26: the POST and the GET of a call are never in flight together: their
\* abort timers are never armed together, a GET is issued only by a step
\* that leaves the POST settled (postRes assigned, with a response or with
\* none) and only the timer of that GET armed, and the frame read starts
\* only in a step in which the awaited GET responded.
C26_RequestsInSequence ==
    /\ []((gets > 0 \/ pc = "GET") => (pc # "POST" /\ "POST" \notin timers))
    /\ [](pc = "READ" => (getRes # Null /\ timers \subseteq {"READ"}))
    /\ [][gets' > gets
             => /\ pc \in {"POST", "GET", "READ"}
                /\ pc' = "GET"
                /\ timers' = {"GET"}
                /\ posts' = 1
                /\ postRes' # Null \/ site' \in {"noResponse", "fallback"}]_vars
    /\ [][(pc' = "READ" /\ pc # "READ") => (pc = "GET" /\ getRes' # Null)]_vars

\* The call reads the event stream of its GET after its POST was answered.
C26_Witness ==
    /\ pc = "READ"
    /\ postRes # Null
    /\ posts = 1
    /\ gets = 1
    /\ chunks = 1

\* C27: each call generates one request id, and the ids of two calls made
\* in the same process differ, whatever the clock read when they started.
C27_RequestIdsDiffer ==
    \A i, j \in DOMAIN calls :
        (i # j /\ calls[i].id # Null /\ calls[j].id # Null)
            => calls[i].id # calls[j].id

\* C28: the frame the reader returns depends on the bytes of the stream
\* only, not on the chunks they come in: while the reader waits its buffer
\* is the bytes received so far and holds no boundary, a reader that returns
\* while the stream is open returns a frame, and the frame returned is the
\* one parsed from the text before the first boundary of the stream.
C28_ChunkingIsIrrelevant ==
    /\ pc = "READ" => (buf \o rest = text /\ IndexOf(buf, Boundary) = -1)
    /\ (pc = "done" /\ StreamState(Cur) = "locked") => first # Null
    /\ (pc = "done" /\ first # Null)
           => /\ IndexOf(text, Boundary) # -1
              /\ first = Some(ParseFrame(Slice(text, 0, IndexOf(text, Boundary))))

\* The first chunk ended between the two newlines of the boundary.
C28_Witness ==
    /\ pc = "READ"
    /\ chunks = 1
    /\ buf # <<>>
    /\ buf[Len(buf)] = LF
    /\ rest # <<>>
    /\ Head(rest) = LF
    /\ IndexOf(text, Boundary) = Len(buf) - 1

\* Whether the first frame of txt holds no line of the fields event, data, id.
NothingRecognized(txt) ==
    /\ IndexOf(txt, Boundary) # -1
    /\ \A i \in 1..Len(FrameLines(txt)) : Ignored(FrameLines(txt)[i])

\* C29: a first frame that is empty or holds only comments is a frame all
\* the same: the reader does not wait for the next one, it returns a frame
\* without event, data and id, and legacyProbe returns http on it, whatever
\* follows on the stream.
C29_EmptyFirstFrameIsHttp ==
    NothingRecognized(text) =>
        /\ pc = "READ" => IndexOf(buf, Boundary) = -1
        /\ (pc = "done" /\ first # Null)
               => /\ first = Some(EmptyEvent)
                  /\ probes[Len(probes)].kind = "http"
                  /\ result = "http"

\* A keep-alive comment came first and 'event: endpoint' was to follow: the
\* call returned http.
C29_Witness ==
    /\ pc = "done"
    /\ text = TxtKeepAlive
    /\ first = Some(EmptyEvent)
    /\ result = "http"

-----------------------------------------------------------------------------
(* The transport of the gateway arguments *)

\* C30: wherever the handler builds gateway arguments for a URL target (it
\* printed the Warp config, asks whether to install, or entered the block
\* that writes the client config), its transport variable is http or sse,
\* and the flag of printed or written gateway arguments is the one of that
\* transport.
C30_TransportKnownAtGateway ==
    (/\ handler.target # Null
     /\ isUrl(handler.target[1])
     /\ handler.printed # Null \/ handler.reads > 0 \/ handler.pc = "ready")
        => /\ handler.transport \in {Some("http"), Some("sse")}
           /\ handler.printed # Null
                  => handler.printed[1][3] = transportFlag(handler.transport)
           /\ (handler.written # Null /\ handler.written[1].kind = "command")
                  => handler.written[1].args[3] = transportFlag(handler.transport)

\* Detection returned unknown, the manual questions gave sse, and the Warp
\* config was printed with --sse.
C30_Witness ==
    /\ handler.printed # Null
    /\ isUrl(handler.target[1])
    /\ handler.argv.transport = Null
    /\ handler.detected = Some("unknown")
    /\ handler.transport = Some("sse")
    /\ handler.printed[1][3] = Words.sse

=============================================================================
